---- MODULE Spec2Model ----
(***************************************************************************)
(* Model of src/pytest_fits/plugin.py: the configuration hook              *)
(* (pytest_configure), the per-test hook (pytest_runtest_setup) and the    *)
(* wrapper it installs (item_function_wrapper), together with the two      *)
(* helpers compare_fits_files and _download_file.                          *)
(*                                                                         *)
(* A path or URL string is modelled as the sequence of its "/"-separated   *)
(* segments: "/run/ref" is <<"", "run", "ref">>, "ref" is <<"ref">> and    *)
(* "http://host/b/" is <<"http:", "", "host", "b", "">>.  Python's None is *)
(* the empty sequence; an optional number n is <<n>>.                      *)
(*                                                                         *)
(* One pytest session is one behaviour: pytest_configure runs once, then   *)
(* the host runner sets up and calls up to MaxTests distinct test items,   *)
(* one at a time.  The orchestrator's hook only exists when it has been    *)
(* registered, so a session without --fits and without a generate path     *)
(* ends after pytest_configure as far as this program is concerned.        *)
(***************************************************************************)
EXTENDS Integers, Sequences, FiniteSets, TLC

VARIABLES
  opts,              \* command line: [fits, generate, baseline]
  registrations,     \* number of FITSComparison objects registered
  self_baseline_dir, \* FITSComparison.baseline_dir
  self_generate_dir, \* FITSComparison.generate_dir
  warned,            \* messages passed to warnings.warn
  files,             \* the file system: path -> data
  dirs,              \* the directories created by the program
  tmpCount,          \* number of tempfile.mkdtemp() calls so far
  pc,                \* position of the session / of the running wrapper
  ran,               \* names of the items already set up
  item,              \* the item being run
  wrapped,           \* item.obj was replaced by item_function_wrapper
  loc,               \* the wrapper's local variables
  io,                \* the calls this invocation made, in order
  tmpMade,           \* temp directories allocated by this invocation
  cmp,               \* what the comparator was given and what it opened
  outcome,           \* "none" | "passed" | "failed" | "skipped"
  error              \* the exception that ended the invocation

vars == <<opts, registrations, self_baseline_dir, self_generate_dir, warned,
          files, dirs, tmpCount, pc, ran, item, wrapped, loc, io, tmpMade,
          cmp, outcome, error>>

\* Number of test items one session runs.
MaxTests == 2

None == <<>>

\* rtol's default, in units of 1e-7.
DefaultRtol == 1

-----------------------------------------------------------------------------
(* Strings and paths *)

\* s + t for the strings the program concatenates.
Cat(s, t) ==
  IF s = "" THEN t
  ELSE IF t = "" THEN s
  ELSE CASE s = "test_default" /\ t = ".fits" -> "test_default.fits"
         [] s = "test_atol" /\ t = ".fits" -> "test_atol.fits"
         [] s = "test_local" /\ t = ".fits" -> "test_local.fits"
         [] s = "test_remote" /\ t = ".fits" -> "test_remote.fits"
         [] s = "test_plain" /\ t = ".fits" -> "test_plain.fits"
         [] s = "baseline-" /\ t = "case.fits" -> "baseline-case.fits"
         [] s = "baseline-" /\ t = "test_default.fits" -> "baseline-test_default.fits"
         [] s = "baseline-" /\ t = "test_atol.fits" -> "baseline-test_atol.fits"
         [] s = "baseline-" /\ t = "test_local.fits" -> "baseline-test_local.fits"
         [] s = "baseline-" /\ t = "test_remote.fits" -> "baseline-test_remote.fits"

\* a + b on path strings: the last segment of a runs into the first of b.
StrCat(a, b) ==
  SubSeq(a, 1, Len(a) - 1) \o <<Cat(a[Len(a)], b[1])>> \o Tail(b)

\* The string starts with "/".
IsAbs(p) == Len(p) >= 2 /\ p[1] = ""

\* os.path.join(a, b)
Join(a, b) ==
  IF IsAbs(b) THEN b
  ELSE IF a = <<"">> THEN b
  ELSE IF a[Len(a)] = "" THEN SubSeq(a, 1, Len(a) - 1) \o b
  ELSE a \o b

RECURSIVE NormSegs(_, _, _)
NormSegs(segs, stack, abs) ==
  IF segs = <<>> THEN stack
  ELSE LET s == Head(segs) IN
       IF s = "" \/ s = "." THEN NormSegs(Tail(segs), stack, abs)
       ELSE IF s = ".."
         THEN IF stack /= <<>> /\ stack[Len(stack)] /= ".."
                THEN NormSegs(Tail(segs), SubSeq(stack, 1, Len(stack) - 1), abs)
              ELSE IF abs THEN NormSegs(Tail(segs), stack, abs)
              ELSE NormSegs(Tail(segs), Append(stack, s), abs)
       ELSE NormSegs(Tail(segs), Append(stack, s), abs)

\* os.path.normpath(p)
Normpath(p) ==
  IF IsAbs(p) THEN <<"">> \o NormSegs(p, <<>>, TRUE)
  ELSE LET r == NormSegs(p, <<>>, FALSE) IN IF r = <<>> THEN <<".">> ELSE r

\* The directory py.test is run in.
Cwd == <<"", "run">>

\* os.path.abspath(p)
Abspath(p) == Normpath(IF IsAbs(p) THEN p ELSE Join(Cwd, p))

\* os.path.dirname(p), for an absolute file path.
Dirname(p) == SubSeq(p, 1, Len(p) - 1)

\* baseline_dir.startswith(('http://', 'https://'))
StartsWithURL(p) == Len(p) >= 2 /\ p[1] \in {"http:", "https:"} /\ p[2] = ""

\* baseline_dir.startswith('http'), over the segments the model uses.
StartsWithHttp(p) == Len(p) >= 1 /\ p[1] \in {"http:", "https:"}

-----------------------------------------------------------------------------
(* The file system *)

IsUnder(p, d) == Len(p) > Len(d) /\ SubSeq(p, 1, Len(d)) = d

\* os.path.exists(p)
Exists(fs, ds, p) == Abspath(p) \in DOMAIN fs \/ Abspath(p) \in ds

WriteFile(fs, p, d) == [q \in DOMAIN fs \cup {p} |-> IF q = p THEN d ELSE fs[q]]

\* shutil.rmtree(d)
RmTreeFiles(fs, d) == [q \in {x \in DOMAIN fs : ~IsUnder(x, d)} |-> fs[q]]
RmTreeDirs(ds, d) == {x \in ds : x /= d /\ ~IsUnder(x, d)}

\* os.makedirs(d): d and its missing parents.
Makedirs(ds, d) == ds \cup {SubSeq(d, 1, n) : n \in 2..Len(d)}

\* tempfile.mkdtemp(): a directory no earlier call returned.
Mkdtemp(n) == <<"", "tmp", ToString(n + 1)>>

-----------------------------------------------------------------------------
(* The session's inputs *)

TestFile == <<"", "proj", "tests", "test_fits.py">>

RemoteRoot == <<"http:", "", "host", "b", "">>

LooseRtol == 2 * 1000000

NoKwargs == [atol |-> None, rtol |-> None, baseline_dir |-> None, filename |-> None]

\* The collected items: item.function.__name__, whether item.keywords has
\* fits_compare, the marker's kwargs and the data the test body returns.
Items ==
  { [name |-> "test_plain", marked |-> FALSE, kwargs |-> NoKwargs, returns |-> 10],
    [name |-> "test_default", marked |-> TRUE, kwargs |-> NoKwargs, returns |-> 10],
    [name |-> "test_atol", marked |-> TRUE,
     kwargs |-> [NoKwargs EXCEPT !.atol = <<1>>], returns |-> 10],
    [name |-> "test_local", marked |-> TRUE,
     kwargs |-> [NoKwargs EXCEPT !.baseline_dir = <<"ref">>,
                                 !.filename = <<"case.fits">>,
                                 !.rtol = <<LooseRtol>>], returns |-> 10],
    [name |-> "test_remote", marked |-> TRUE,
     kwargs |-> [NoKwargs EXCEPT !.baseline_dir = RemoteRoot], returns |-> 10] }

NoItem == [name |-> "", marked |-> FALSE, kwargs |-> NoKwargs, returns |-> 0]

\* kwargs.get(key, default)
Get(kwargs, key, default) == IF kwargs[key] = None THEN default ELSE kwargs[key]

GenerateOpts == {None, <<"gen">>}
BaselineOpts == {None, <<"ref">>, RemoteRoot}

\* Data of the baselines stored on disk (None: no baseline stored).
StoredData == {None, <<10>>, <<11>>}
\* What a fetch of a remote baseline yields (None: the transport fails).
Responses == {None, <<10>>, <<11>>}

FitsNames == {<<"test_default.fits">>, <<"test_atol.fits">>, <<"case.fits">>,
              <<"test_remote.fits">>}
BaselineDirs == {<<"", "proj", "tests", "baseline">>, <<"", "proj", "tests", "ref">>,
                 <<"", "run", "ref">>}

Galactic == <<"galactic_2d.fits">>
Equatorial == <<"equatorial_3d.fits">>

\* The files on disk when the session starts: the stored baselines and, in
\* the run directory, the two FITS files compare_fits_files names.
InitFiles(stored, lit) ==
  LET base == IF stored = None THEN {} ELSE {Join(d, f) : d \in BaselineDirs, f \in FitsNames}
      lits == IF lit = None THEN {} ELSE {Abspath(Galactic), Abspath(Equatorial)}
  IN [p \in base \cup lits |->
        IF p \in base THEN stored[1]
        ELSE IF p = Abspath(Galactic) THEN 10 ELSE lit[1]]

NoLoc == [baseline_dir |-> None, baseline_remote |-> FALSE, hdu |-> None,
          filename |-> None, result_dir |-> None, test_image |-> None,
          url |-> None, baseline_file_ref |-> None, baseline_file |-> None]

NoReport == [a |-> None, b |-> None, da |-> 0, db |-> 0]
NoError == [type |-> "", text |-> "", path |-> None, report |-> NoReport]
NoCmp == [calls |-> 0, given |-> <<None, None>>, opened |-> <<None, None>>,
          tol |-> None, raised |-> "", identical |-> FALSE, report |-> NoReport]

Init ==
  /\ opts \in [fits : BOOLEAN, generate : GenerateOpts, baseline : BaselineOpts]
  /\ registrations = 0
  /\ self_baseline_dir = None
  /\ self_generate_dir = None
  /\ warned = <<>>
  /\ \E stored \in StoredData, lit \in StoredData : files = InitFiles(stored, lit)
  /\ dirs = {}
  /\ tmpCount = 0
  /\ pc = "start"
  /\ ran = {}
  /\ item = NoItem
  /\ wrapped = FALSE
  /\ loc = NoLoc
  /\ io = <<>>
  /\ tmpMade = {}
  /\ cmp = NoCmp
  /\ outcome = "none"
  /\ error = NoError
-----------------------------------------------------------------------------
(* compare_fits_files and _download_file *)

Abs(x) == IF x < 0 THEN -x ELSE x

\* The comparator's test on two data values: |x - y| <= rtol * |y|, rtol in
\* units of 1e-7.
AllClose(x, y, rtol) == Abs(x - y) * 10000000 <= rtol * Abs(y)

\* FITSDiff(a, b, tolerance=tol) and its report(): opens both files (names
\* relative to the run directory) and raises if one is missing.
FITSDiff(a, b, tol, fs) ==
  LET pa == Abspath(a)
      pb == Abspath(b)
  IN IF pa \notin DOMAIN fs \/ pb \notin DOMAIN fs
       THEN [opened |-> <<pa, pb>>, raised |-> "IOError", identical |-> FALSE,
             report |-> NoReport]
     ELSE [opened |-> <<pa, pb>>, raised |-> "",
           identical |-> AllClose(fs[pa], fs[pb], tol[1]),
           report |-> [a |-> pa, b |-> pb, da |-> fs[pa], db |-> fs[pb]]]

compare_fits_files(filename1, filename2, atol, rtol, fs) ==
  IF atol /= None
    THEN [NoCmp EXCEPT !.calls = 1, !.given = <<filename1, filename2>>,
                       !.tol = rtol, !.raised = "NotImplementedError"]
  ELSE LET name1 == Galactic
           name2 == Equatorial
           diff == FITSDiff(name1, name2, rtol, fs)
       IN [calls |-> 1, given |-> <<filename1, filename2>>, opened |-> diff.opened,
           tol |-> rtol, raised |-> diff.raised, identical |-> diff.identical,
           report |-> diff.report]

\* _download_file(url), resp being what urlopen(url) yields: on a transport
\* failure urlopen raises before anything is created.
_download_file(url, resp, fs, ds, n) ==
  IF resp = None
    THEN [raised |-> TRUE, filename |-> None, result_dir |-> None, files |-> fs,
          dirs |-> ds]
  ELSE LET result_dir == Mkdtemp(n)
           filename == Join(result_dir, <<"downloaded">>)
       IN [raised |-> FALSE, filename |-> filename, result_dir |-> result_dir,
           files |-> WriteFile(fs, filename, resp[1]),
           dirs |-> ds \cup {result_dir}]

-----------------------------------------------------------------------------
(* pytest_configure *)

Conflict == "Ignoring --fits-baseline-path since --fits-generate-path is set"

\* The values pytest_configure passes to FITSComparison(...).
ConfiguredBaselineDir(baseline, generate) ==
  LET b1 == IF baseline /= None THEN Abspath(baseline) ELSE baseline
  IN IF generate /= None THEN Abspath(generate) ELSE b1

ConfiguredGenerateDir(baseline, generate) == generate

pytest_configure ==
  /\ pc = "start"
  /\ pc' = "idle"
  /\ IF opts.fits \/ opts.generate /= None
       THEN /\ warned' = IF opts.baseline /= None /\ opts.generate /= None
                           THEN Append(warned, Conflict) ELSE warned
            /\ self_baseline_dir' = ConfiguredBaselineDir(opts.baseline, opts.generate)
            /\ self_generate_dir' = ConfiguredGenerateDir(opts.baseline, opts.generate)
            /\ registrations' = registrations + 1
       ELSE UNCHANGED <<warned, self_baseline_dir, self_generate_dir, registrations>>
  /\ UNCHANGED <<opts, files, dirs, tmpCount, ran, item, wrapped, loc, io, tmpMade,
                 cmp, outcome, error>>

-----------------------------------------------------------------------------
(* FITSComparison.pytest_runtest_setup *)

\* Faulty variant: every item is wrapped, marked or not.
ShouldWrap_always(i) == TRUE

\* compare = item.keywords.get('fits_compare'); if compare is None: return
ShouldWrap(i) == i.marked

\* The hook is called once for each item the session runs, as long as the
\* orchestrator is registered.
pytest_runtest_setup(i) ==
  /\ registrations > 0
  /\ pc \in {"idle", "done"}
  /\ i.name \notin ran
  /\ Cardinality(ran) < MaxTests
  /\ ran' = ran \cup {i.name}
  /\ item' = i
  /\ wrapped' = ShouldWrap(i)
  /\ loc' = NoLoc
  /\ io' = <<>>
  /\ tmpMade' = {}
  /\ cmp' = NoCmp
  /\ outcome' = "none"
  /\ error' = NoError
  /\ pc' = "call"
  /\ UNCHANGED <<opts, registrations, self_baseline_dir, self_generate_dir, warned,
                 files, dirs, tmpCount>>

\* The runner calls an item whose callable was left alone.
call_original ==
  /\ pc = "call"
  /\ ~wrapped
  /\ io' = Append(io, "body")
  /\ outcome' = "passed"
  /\ pc' = "done"
  /\ UNCHANGED <<opts, registrations, self_baseline_dir, self_generate_dir, warned,
                 files, dirs, tmpCount, ran, item, wrapped, loc, tmpMade, cmp, error>>

-----------------------------------------------------------------------------
(* item_function_wrapper *)

\* Lines 129-137: the baseline directory.
ResolveBaselineDir(marker_dir, global_dir) ==
  IF marker_dir = None
    THEN IF global_dir = None
           THEN Join(Dirname(TestFile), <<"baseline">>)
         ELSE global_dir
  ELSE IF ~StartsWithURL(marker_dir)
         THEN Join(Dirname(TestFile), marker_dir)
       ELSE marker_dir

\* Lines 149-151: the target file name.
TargetFilename(i) ==
  IF Get(i.kwargs, "filename", None) = None THEN <<Cat(i.name, ".fits")>>
  ELSE i.kwargs.filename

\* Lines 129-151: resolve the baseline directory, run the test body, name
\* the target file.
wrapper_resolve ==
  /\ pc = "call"
  /\ wrapped
  /\ LET baseline_dir == ResolveBaselineDir(Get(item.kwargs, "baseline_dir", None),
                                            self_baseline_dir)
     IN loc' = [loc EXCEPT !.baseline_dir = baseline_dir,
                           !.baseline_remote = StartsWithHttp(baseline_dir),
                           !.hdu = <<item.returns>>,
                           !.filename = TargetFilename(item)]
  /\ io' = Append(io, "body")
  /\ pc' = "resolved"
  /\ UNCHANGED <<opts, registrations, self_baseline_dir, self_generate_dir, warned,
                 files, dirs, tmpCount, ran, item, wrapped, tmpMade, cmp, outcome,
                 error>>

\* Lines 155-161: write the produced object into a fresh temporary directory.
wrapper_save ==
  /\ pc = "resolved"
  /\ self_generate_dir = None
  /\ LET result_dir == Mkdtemp(tmpCount)
         test_image == Abspath(Join(result_dir, loc.filename))
     IN /\ loc' = [loc EXCEPT !.result_dir = result_dir, !.test_image = test_image]
        /\ dirs' = dirs \cup {result_dir}
        /\ tmpMade' = tmpMade \cup {result_dir}
        /\ files' = WriteFile(files, test_image, loc.hdu[1])
  /\ tmpCount' = tmpCount + 1
  /\ io' = io \o <<"mkdtemp", "writeto">>
  /\ pc' = "saved"
  /\ UNCHANGED <<opts, registrations, self_baseline_dir, self_generate_dir, warned,
                 ran, item, wrapped, cmp, outcome, error>>

\* Lines 163-167: download the baseline, or build its local path.
wrapper_locate ==
  /\ pc = "saved"
  /\ IF loc.baseline_remote
       THEN \E resp \in Responses :
              LET url == StrCat(loc.baseline_dir, loc.filename)
                  d == _download_file(url, resp, files, dirs, tmpCount)
              IN /\ loc' = [loc EXCEPT !.url = url, !.baseline_file_ref = d.filename]
                 /\ files' = d.files
                 /\ dirs' = d.dirs
                 /\ IF d.raised
                      THEN /\ io' = io \o <<"urlopen">>
                           /\ outcome' = "failed"
                           /\ error' = [NoError EXCEPT !.type = "URLError"]
                           /\ pc' = "done"
                           /\ UNCHANGED <<tmpCount, tmpMade>>
                    ELSE /\ io' = io \o <<"urlopen", "mkdtemp", "download">>
                         /\ tmpCount' = tmpCount + 1
                         /\ tmpMade' = tmpMade \cup {d.result_dir}
                         /\ pc' = "located"
                         /\ UNCHANGED <<outcome, error>>
     ELSE /\ loc' = [loc EXCEPT !.baseline_file_ref =
                       Abspath(Join(Join(Dirname(TestFile), loc.baseline_dir),
                                    loc.filename))]
          /\ pc' = "located"
          /\ UNCHANGED <<files, dirs, tmpCount, tmpMade, io, outcome, error>>
  /\ UNCHANGED <<opts, registrations, self_baseline_dir, self_generate_dir, warned,
                 ran, item, wrapped, cmp>>

\* Faulty variant: the message names the baseline instead of the artifact.
MissingBaselineError_ref(test_image, baseline_file_ref) ==
  [NoError EXCEPT !.type = "Exception",
                  !.text = "FITS file not found for comparison test",
                  !.path = baseline_file_ref]

\* Lines 170-174: the exception raised when the baseline is missing.
MissingBaselineError(test_image, baseline_file_ref) ==
  [NoError EXCEPT !.type = "Exception",
                  !.text = "FITS file not found for comparison test",
                  !.path = test_image]

\* Lines 169-174
wrapper_check ==
  /\ pc = "located"
  /\ io' = Append(io, "exists")
  /\ IF ~Exists(files, dirs, loc.baseline_file_ref)
       THEN /\ outcome' = "failed"
            /\ error' = MissingBaselineError(loc.test_image, loc.baseline_file_ref)
            /\ pc' = "done"
     ELSE /\ pc' = "checked"
          /\ UNCHANGED <<outcome, error>>
  /\ UNCHANGED <<opts, registrations, self_baseline_dir, self_generate_dir, warned,
                 files, dirs, tmpCount, ran, item, wrapped, loc, tmpMade, cmp>>

\* Lines 176-179: copy the baseline next to the artifact.
wrapper_copy ==
  /\ pc = "checked"
  /\ LET baseline_file == Abspath(Join(loc.result_dir,
                                       StrCat(<<"baseline-">>, loc.filename)))
     IN /\ loc' = [loc EXCEPT !.baseline_file = baseline_file]
        /\ files' = WriteFile(files, baseline_file, files[loc.baseline_file_ref])
  /\ io' = Append(io, "copyfile")
  /\ pc' = "copied"
  /\ UNCHANGED <<opts, registrations, self_baseline_dir, self_generate_dir, warned,
                 dirs, tmpCount, ran, item, wrapped, tmpMade, cmp, outcome, error>>

\* Faulty variant: the temporary directory is removed on failure too.
ShouldRemove_always(identical) == TRUE

\* Line 183: the temporary directory is removed only on success.
ShouldRemove(identical) == identical

\* Lines 181-186: compare, then clean up or fail.
wrapper_compare ==
  /\ pc = "copied"
  /\ LET r == compare_fits_files(loc.baseline_file, loc.test_image,
                                 Get(item.kwargs, "atol", None),
                                 Get(item.kwargs, "rtol", <<DefaultRtol>>), files)
     IN /\ cmp' = r
        /\ io' = IF r.raised = "NotImplementedError" THEN io
                 ELSE Append(io, "FITSDiff")
                      \o (IF r.raised = "" /\ ShouldRemove(r.identical)
                            THEN <<"rmtree">> ELSE <<>>)
        /\ IF r.raised /= ""
             THEN /\ outcome' = "failed"
                  /\ error' = [NoError EXCEPT !.type = r.raised,
                                 !.text = IF r.raised = "NotImplementedError"
                                            THEN "atol argument not yet supported"
                                          ELSE ""]
                  /\ UNCHANGED <<files, dirs>>
           ELSE /\ IF ShouldRemove(r.identical)
                     THEN /\ files' = RmTreeFiles(files, loc.result_dir)
                          /\ dirs' = RmTreeDirs(dirs, loc.result_dir)
                   ELSE UNCHANGED <<files, dirs>>
                /\ IF r.identical
                     THEN /\ outcome' = "passed"
                          /\ error' = NoError
                   ELSE /\ outcome' = "failed"
                        /\ error' = [NoError EXCEPT !.type = "Exception",
                                                    !.report = r.report]
  /\ pc' = "done"
  /\ UNCHANGED <<opts, registrations, self_baseline_dir, self_generate_dir, warned,
                 tmpCount, ran, item, wrapped, loc, tmpMade>>

\* Faulty variant: the wrapper returns without pytest.skip.
GenerateOutcome_passed == "passed"

\* Line 194: pytest.skip(...)
GenerateOutcome == "skipped"

\* Lines 188-194: write the produced object into the generate directory.
wrapper_generate ==
  /\ pc = "resolved"
  /\ self_generate_dir /= None
  /\ LET missing == ~Exists(files, dirs, self_generate_dir)
         target == Abspath(Join(self_generate_dir, loc.filename))
     IN /\ dirs' = IF missing THEN Makedirs(dirs, Abspath(self_generate_dir)) ELSE dirs
        /\ files' = WriteFile(files, target, loc.hdu[1])
        /\ io' = io \o <<"exists">> \o (IF missing THEN <<"makedirs">> ELSE <<>>)
                    \o <<"writeto">>
  /\ outcome' = GenerateOutcome
  /\ pc' = "done"
  /\ UNCHANGED <<opts, registrations, self_baseline_dir, self_generate_dir, warned,
                 tmpCount, ran, item, wrapped, loc, tmpMade, cmp, error>>

-----------------------------------------------------------------------------

Next ==
  \/ pytest_configure
  \/ \E i \in Items : pytest_runtest_setup(i)
  \/ call_original
  \/ wrapper_resolve
  \/ wrapper_save
  \/ wrapper_locate
  \/ wrapper_check
  \/ wrapper_copy
  \/ wrapper_compare
  \/ wrapper_generate

Spec == Init /\ [][Next]_vars
-----------------------------------------------------------------------------
(* Vocabulary of the properties *)

Has(e) == \E k \in 1..Len(io) : io[k] = e

Count(e) == Cardinality({k \in 1..Len(io) : io[k] = e})

\* No call of this invocation touched the file system or the network.
NoFileIO == \A k \in 1..Len(io) : io[k] = "body"

\* The wrapper entered its verification branch (line 158 is its first call).
Comparing == wrapped /\ Len(io) >= 2 /\ io[2] = "mkdtemp"

\* The wrapper entered its generate branch (line 190 is its first call).
Generating == wrapped /\ Len(io) >= 2 /\ io[2] = "exists"

\* A temporary directory is gone: neither it nor a file below it is left.
Gone(d) == d \notin dirs /\ \A p \in DOMAIN files : ~IsUnder(p, d)

AbsOrNone(p) == IF p = None THEN None ELSE Abspath(p)

\* <generate_dir>/<filename> for the running item.
GenerateTarget == Join(Abspath(opts.generate), TargetFilename(item))

-----------------------------------------------------------------------------
(* C1: a marked test whose marker gives a non-null atol ends with the      *)
(* "not supported" error, raised before any file I/O: no temporary         *)
(* directory, no artifact, no baseline read, downloaded or copied, in      *)
(* verification and in generate mode.                                      *)
C1_AtolFailsBeforeIO ==
  (pc = "done" /\ wrapped /\ item.kwargs.atol /= None) =>
    /\ outcome = "failed"
    /\ error.type = "NotImplementedError"
    /\ NoFileIO
    /\ tmpMade = {}

(* C2: in verification mode the comparator works on exactly the two paths  *)
(* the wrapper built (the baseline copy and the artifact, both in this     *)
(* invocation's temporary directory) with the marker's rtol:               *)
(* compare_fits_files compares its filename1 and filename2.                *)
C2_ComparesGivenFiles ==
  (Has("FITSDiff")) =>
    /\ cmp.given = <<loc.baseline_file, loc.test_image>>
    /\ IsUnder(loc.baseline_file, loc.result_dir)
    /\ IsUnder(loc.test_image, loc.result_dir)
    /\ cmp.opened = cmp.given
    /\ cmp.tol = Get(item.kwargs, "rtol", <<DefaultRtol>>)
    /\ cmp.raised = ""

(* C3: in generate mode a marked test ends skipped with the artifact at    *)
(* <generate_dir>/<filename>, the directory existing; no temporary         *)
(* directory is created, no baseline is read or downloaded and the         *)
(* comparator is not invoked.                                              *)
C3_GenerateSkips ==
  (pc = "done" /\ wrapped /\ opts.generate /= None) =>
    /\ outcome = "skipped"
    /\ GenerateTarget \in DOMAIN files
    /\ files[GenerateTarget] = item.returns
    /\ Abspath(opts.generate) \in dirs
    /\ tmpMade = {}
    /\ ~Has("mkdtemp") /\ ~Has("urlopen") /\ ~Has("download") /\ ~Has("copyfile")
    /\ ~Has("FITSDiff")
    /\ cmp.calls = 0

C3_Witness ==
  /\ pc = "done" /\ wrapped /\ opts.generate /= None
  /\ outcome = "skipped"
  /\ Has("makedirs")
  /\ GenerateTarget \in DOMAIN files

(* C4: in verification mode, when the baseline exists and the comparator   *)
(* reports identical, the test passes and no temporary location allocated  *)
(* during the invocation is left, for local and remote baseline roots.     *)
C4_PassLeavesNoTemp ==
  (pc = "done" /\ wrapped /\ self_generate_dir = None /\ Has("FITSDiff")
     /\ cmp.raised = "" /\ cmp.identical) =>
    /\ outcome = "passed"
    /\ \A d \in tmpMade : Gone(d)

(* C5: in verification mode, when the comparator reports non-identical,    *)
(* the test fails with the comparator's report as its message, and the     *)
(* temporary directory is still there holding the generated artifact and   *)
(* the copy of the baseline.                                               *)
C5_MismatchFailsAndKeeps ==
  (pc = "done" /\ Has("FITSDiff") /\ cmp.raised = "" /\ ~cmp.identical) =>
    /\ outcome = "failed"
    /\ error.type = "Exception"
    /\ error.report = cmp.report
    /\ error.report /= NoReport
    /\ loc.result_dir \in dirs
    /\ IsUnder(loc.test_image, loc.result_dir)
    /\ loc.test_image \in DOMAIN files
    /\ files[loc.test_image] = item.returns
    /\ IsUnder(loc.baseline_file, loc.result_dir)
    /\ loc.baseline_file \in DOMAIN files
    /\ loc.baseline_file_ref \in DOMAIN files
    /\ files[loc.baseline_file] = files[loc.baseline_file_ref]

C5_Witness ==
  /\ pc = "done" /\ Has("FITSDiff") /\ cmp.raised = "" /\ ~cmp.identical
  /\ outcome = "failed"
  /\ loc.baseline_file \in DOMAIN files

(* C6: in verification mode, when no file is at the resolved baseline      *)
(* path, the test fails at once with the missing-baseline error naming the *)
(* generated artifact; the artifact has been written and stays, no copy of *)
(* the baseline was made and the comparator was not invoked.               *)
C6_MissingBaseline ==
  (wrapped /\ self_generate_dir = None /\ loc.baseline_file_ref /= None
     /\ pc /= "located" /\ ~Exists(files, dirs, loc.baseline_file_ref)) =>
    /\ pc = "done"
    /\ outcome = "failed"
    /\ error.type = "Exception"
    /\ error.text = "FITS file not found for comparison test"
    /\ error.path = loc.test_image
    /\ loc.test_image \in DOMAIN files
    /\ files[loc.test_image] = item.returns
    /\ io = <<"body", "mkdtemp", "writeto", "exists">>
    /\ loc.baseline_file = None
    /\ cmp.calls = 0

C6_Witness ==
  /\ pc = "done" /\ wrapped /\ self_generate_dir = None
  /\ loc.baseline_file_ref /= None
  /\ ~Exists(files, dirs, loc.baseline_file_ref)
  /\ error.text = "FITS file not found for comparison test"

(* C7: when a generate path comes with a baseline override (the global     *)
(* --fits-baseline-path or a marker's baseline_dir) a warning is emitted,  *)
(* the override is ignored and generate mode is used: the artifact is      *)
(* written to the generate path and the test is skipped.                   *)
C7_ConflictWarns ==
  (pc = "done" /\ wrapped /\ opts.generate /= None
     /\ (opts.baseline /= None \/ item.kwargs.baseline_dir /= None)) =>
    /\ Len(warned) > 0
    /\ outcome = "skipped"
    /\ GenerateTarget \in DOMAIN files
    /\ ~Has("urlopen") /\ ~Has("copyfile")

(* C8: the orchestrator is registered exactly once if --fits is set or a   *)
(* generate path is given, and not otherwise; it stores the absolute form  *)
(* of --fits-baseline-path as its baseline directory and the absolute form *)
(* of --fits-generate-path as its generate directory.                      *)
C8_Registration ==
  (pc /= "start") =>
    /\ registrations = IF opts.fits \/ opts.generate /= None THEN 1 ELSE 0
    /\ registrations = 1 =>
         /\ self_baseline_dir = AbsOrNone(opts.baseline)
         /\ self_generate_dir = AbsOrNone(opts.generate)

(* C9: in verification mode the baseline root is the marker's baseline_dir *)
(* if given, else the global baseline directory if given, else "baseline"  *)
(* next to the test file; a URL root from either source is remote and is   *)
(* used as it is to build the download URL, any other root is local and    *)
(* resolved relative to the test file's directory.                         *)
C9_BaselineRoot ==
  (wrapped /\ self_generate_dir = None /\ pc \notin {"start", "idle", "call"}) =>
    LET root == IF item.kwargs.baseline_dir /= None THEN item.kwargs.baseline_dir
                ELSE IF opts.baseline /= None THEN opts.baseline
                ELSE <<"baseline">>
    IN IF StartsWithURL(root)
         THEN /\ loc.baseline_remote
              /\ loc.baseline_dir = root
              /\ loc.url /= None => loc.url = StrCat(root, loc.filename)
       ELSE /\ ~loc.baseline_remote
            /\ loc.baseline_file_ref /= None =>
                 loc.baseline_file_ref =
                   Abspath(Join(Join(Dirname(TestFile), root), loc.filename))

(* C10: every invocation takes one of three paths and ends in one outcome: *)
(* an unmarked test is left alone (no wrapper, no file I/O); a marked test *)
(* with a generate directory goes Generating then Skipped; a marked test   *)
(* without one goes Comparing then Passed or Failed.  The body runs once,  *)
(* before anything is written, the comparator at most once, and the        *)
(* orchestrator's configuration never changes after pytest_configure.      *)
C10_State ==
  /\ outcome \in {"none", "passed", "failed", "skipped"}
  /\ (pc = "done") <=> (outcome /= "none")
  /\ ~(Generating /\ Comparing)
  /\ Generating => self_generate_dir /= None
  /\ Comparing => self_generate_dir = None
  /\ Count("body") <= 1
  /\ (Len(io) > 0) => io[1] = "body"
  /\ Count("FITSDiff") <= 1 /\ cmp.calls <= 1
  /\ (pc \in {"call", "resolved", "saved", "located", "checked", "copied", "done"}) =>
       /\ wrapped <=> item.marked
       /\ ~item.marked => NoFileIO /\ tmpMade = {} /\ cmp.calls = 0
  /\ (pc = "done") =>
       /\ Count("body") = 1
       /\ ~item.marked => outcome = "passed"
       /\ (item.marked /\ self_generate_dir /= None) =>
            Generating /\ outcome = "skipped"
       /\ (item.marked /\ self_generate_dir = None) =>
            Comparing /\ outcome \in {"passed", "failed"}

C10_Step ==
  /\ (pc /= "start") =>
       UNCHANGED <<opts, registrations, self_baseline_dir, self_generate_dir>>
  /\ (outcome /= "none" /\ pc' = "done") => outcome' = outcome
  /\ (~NoFileIO /\ pc' /= "call") => UNCHANGED <<Generating, Comparing>>

C10_Paths == []C10_State /\ [][C10_Step]_vars

C10_Witness ==
  /\ pc = "done" /\ Cardinality(ran) = MaxTests
  /\ item.marked /\ self_generate_dir = None
  /\ Comparing /\ outcome = "failed"
  /\ Count("body") = 1

====
